---- MODULE Spec2Model ----
(***************************************************************************)
(* A model of go-lz4: the streaming decoder (src/reader.go), the one-shot  *)
(* Block API encoder (src/writer.go) and the streaming encoder             *)
(* (src/lz4/writer.go).                                                    *)
(*                                                                         *)
(* uint32 values.  TLC's integers are 32-bit signed, so a uint32 value v   *)
(* is represented by its two's-complement reading: v itself below 2^31 and *)
(* v - 2^32 from 2^31 on.  Sums and differences of the values of this      *)
(* model never leave that range, so they agree with Go's arithmetic modulo *)
(* 2^32; a negative representative stands for a value of at least 2^31,    *)
(* which is larger than every buffer index.                                *)
(***************************************************************************)
EXTENDS Integers, Sequences, FiniteSets, TLC

\* ------------------------------------------------------------ constants
mlBits == 4
mlMask == (2 ^ mlBits) - 1
runBits == 8 - mlBits
runMask == (2 ^ runBits) - 1
bufferSize == 128 * 1024
flushSize == 2 ^ 16
minMatch == 4
hashLog == 17
hashShift == (minMatch * 8) - hashLog
incompressible == 128
prefetchSize == 1024
flushPos == bufferSize - prefetchSize
\* 0x88888888 in the two's-complement reading
uninitHash == -2004318072
MaxInputSize == 2113929216
\* the buffer size bufio.NewWriter gives its Writer
bufioSize == 4096

\* ------------------------------------------------------------ bounds
\* longest byte stream handed to the decoder byte by byte
MaxWire == 4
\* the match length of the long-match stream is bufferSize + LongBy
LongBy == 1

Min(a, b) == IF a < b THEN a ELSE b
Max(a, b) == IF a < b THEN b ELSE a

\* all sequences over S of length at most n
RECURSIVE SeqsUpTo(_, _)
SeqsUpTo(S, n) ==
  IF n = 0 THEN {<<>>}
  ELSE LET T == SeqsUpTo(S, n - 1)
       IN T \cup {Append(t, x) : t \in {u \in T : Len(u) = n - 1}, x \in S}

\* ------------------------------------------------------------ byte sources
\* A byte source is what the caller hands in; it is described rather than
\* stored: kind "seq" is the bytes themselves, "run" is n copies of by,
\* "ramp" is the little-endian 16-bit counter 0, 1, 2, ... (no four bytes of
\* it repeat within 64 KiB), interrupted by a run of one byte.
SeqIn(q) == [kind |-> "seq", n |-> Len(q), by |-> 0, at |-> 0, run |-> 0, bytes |-> q]
RunIn(n, c) == [kind |-> "run", n |-> n, by |-> c, at |-> 0, run |-> 0, bytes |-> <<>>]
RampIn(n) == [kind |-> "ramp", n |-> n, by |-> 0, at |-> 0, run |-> 0, bytes |-> <<>>]
\* a ramp of n bytes whose bytes at..at+run-1 are c instead
BurstIn(n, at, run, c) ==
  [kind |-> "ramp", n |-> n, by |-> c, at |-> at, run |-> run, bytes |-> <<>>]

InLen(in) == in.n

InAt(in, i) ==
  CASE in.kind = "seq" -> in.bytes[i + 1]
    [] in.kind = "run" -> in.by
    [] OTHER -> IF i >= in.at /\ i < in.at + in.run THEN in.by
                ELSE IF i % 2 = 0 THEN (i \div 2) % 256 ELSE (i \div 512) % 256

InSlice(in, from, to) == [k \in 1..(to - from) |-> InAt(in, from + k - 1)]

\* io.ByteReader.ReadByte: the next byte, or 0 and the source's error.
ReadByte(r) ==
  IF r.off < InLen(r.in)
  THEN [by |-> InAt(r.in, r.off), err |-> "nil", r |-> [r EXCEPT !.off = @ + 1]]
  ELSE [by |-> 0, err |-> r.err, r |-> [r EXCEPT !.fails = @ + 1]]

NewByteReader(in, err) == [in |-> in, off |-> 0, err |-> err, fails |-> 0]

\* ------------------------------------------------------------ buffers
\* A Go byte slice made with make() is all zero; a buffer is kept as the
\* sequence of its bytes up to the highest index written.
BufAt(buf, i) == IF i < Len(buf) THEN buf[i + 1] ELSE 0

Slice(buf, from, to) == [k \in 1..(to - from) |-> BufAt(buf, from + k - 1)]

StoreAt(buf, p, q) ==
  IF p = Len(buf) THEN buf \o q
  ELSE
  [k \in 1..Max(Len(buf), p + Len(q)) |->
     IF k - 1 >= p /\ k - 1 < p + Len(q) THEN q[k - p] ELSE BufAt(buf, k - 1)]

\* ------------------------------------------------------------ bufio.Writer on the pipe
NewWriter0 == [buf |-> <<>>, err |-> "nil", out |-> <<>>, rclosed |-> FALSE]

\* PipeWriter.Write: the consumer takes the bytes, unless it has closed its end.
PipeWrite(w, p) ==
  IF w.rclosed THEN [w EXCEPT !.err = "ErrClosedPipe"]
  ELSE [w EXCEPT !.out = @ \o p]

\* bufio.Writer.Flush
bufio_Flush(w) ==
  IF w.err # "nil" \/ Len(w.buf) = 0 THEN w
  ELSE LET w1 == PipeWrite(w, w.buf)
       IN IF w1.err # "nil" THEN w1 ELSE [w1 EXCEPT !.buf = <<>>]

\* bufio.Writer.Write
RECURSIVE bufio_Write(_, _)
bufio_Write(w, p) ==
  IF w.err # "nil" THEN w
  ELSE IF Len(p) > bufioSize - Len(w.buf)
  THEN IF Len(w.buf) = 0 THEN PipeWrite(w, p)
       ELSE LET n == bufioSize - Len(w.buf)
            IN bufio_Write(bufio_Flush([w EXCEPT !.buf = @ \o SubSeq(p, 1, n)]),
                           SubSeq(p, n + 1, Len(p)))
  ELSE [w EXCEPT !.buf = @ \o p]

\* bufio.Writer.WriteByte, once for each byte of q in turn
RECURSIVE bufio_WriteBytes(_, _)
bufio_WriteBytes(w, q) ==
  IF w.err # "nil" \/ Len(q) = 0 THEN w
  ELSE IF Len(w.buf) >= bufioSize
  THEN LET w1 == bufio_Flush(w)
       IN IF w1.err # "nil" THEN w1 ELSE bufio_WriteBytes(w1, q)
  ELSE LET n == Min(bufioSize - Len(w.buf), Len(q))
       IN bufio_WriteBytes([w EXCEPT !.buf = @ \o SubSeq(q, 1, n)],
                           SubSeq(q, n + 1, Len(q)))

\* ------------------------------------------------------------ state
VARIABLES
  input,   \* the scenario: the byte sequence S given to an encoder, or the stream given to the decoder
  pc,      \* where the running task is
  r,       \* the byte source of the running session
  w,       \* its bufio.Writer, the pipe behind it and the consumer's end
  e,       \* encoder of src/lz4/writer.go, with encode1's locals
  blk,     \* encoder of src/writer.go, with Encode's locals
  d,       \* decoder of src/reader.go
  ses      \* the session's outcome and its history

vars == <<input, pc, r, w, e, blk, d, ses>>

\* ret: what decode1 / encode1 returned ("run" while it has not); panic: the
\* run-time panic that ended the task; nfin: how often finish ran its
\* end-of-input branch; site: the read that hit the end of the source;
\* lowref: a flush was entered with ref below flushSize; mal: a token's
\* offset was 0 or reached before the start of the decoded bytes, under: it
\* reached before the start; code: the token byte being decoded;
\* task: the function the session runs.
NewSession ==
  [ret |-> "run", panic |-> "none", nfin |-> 0, site |-> "none",
   lowref |-> FALSE, mal |-> FALSE, under |-> FALSE, code |-> 0, task |-> "decode1"]

\* ------------------------------------------------------------ src/reader.go
NewDecoder == [buf |-> <<>>, pos |-> 0, ref |-> 0]

Panic(m, why) == [m EXCEPT !.ses.panic = why]

\* the first place from off on where the source holds no 255, and the length
\* of the source when there is none
getLenStop(in, off) ==
  LET T == {j \in off..(InLen(in) - 1) : InAt(in, j) # 255}
  IN IF T = {} THEN InLen(in) ELSE CHOOSE j \in T : \A i \in T : j <= i

\* getLen reads on while it reads 255: it stops at the first byte that is not
\* 255, or at the end of the source.
decoder_getLen(rd) ==
  LET stop == getLenStop(rd.in, rd.off)
      n255 == stop - rd.off
  IN IF stop >= InLen(rd.in)
     THEN [length |-> 0, err |-> rd.err,
           r |-> [rd EXCEPT !.off = InLen(rd.in), !.fails = @ + 1]]
     ELSE [length |-> 255 * n255 + InAt(rd.in, stop), err |-> "nil",
           r |-> [rd EXCEPT !.off = stop + 1]]

decoder_readUint16(rd) ==
  LET b1 == ReadByte(rd) IN
  IF b1.err # "nil" THEN [u16 |-> 0, err |-> b1.err, r |-> b1.r, at |-> 1]
  ELSE LET b2 == ReadByte(b1.r) IN
       IF b2.err # "nil" THEN [u16 |-> 0, err |-> b2.err, r |-> b2.r, at |-> 2]
       ELSE [u16 |-> b2.by * 256 + b1.by, err |-> "nil", r |-> b2.r, at |-> 0]

\* m bundles the decoder with its reader, its writer and the session record.
flushOut(m, s, n) ==
  IF s < 0 \/ s > bufferSize
  THEN Panic([m EXCEPT !.ses.lowref = TRUE], "slice bounds out of range")
  ELSE IF n < 0 \/ flushSize + n > bufferSize \/ s > m.d.pos
  THEN Panic([m EXCEPT !.w = bufio_Write(@, Slice(m.d.buf, 0, s))],
             "slice bounds out of range")
  ELSE [m EXCEPT !.w = bufio_Write(@, Slice(m.d.buf, 0, s)),
                 !.d = [buf |-> StoreAt(m.d.buf, 0, Slice(m.d.buf, s, m.d.pos)),
                        pos |-> flushSize + n,
                        ref |-> flushSize]]

decoder_flush(m, length) ==
  IF m.d.pos + length > bufferSize
  THEN flushOut(m, m.d.ref - flushSize, m.d.pos - m.d.ref)
  ELSE m

finished(m, w1) == [m EXCEPT !.w = w1, !.ses.nfin = @ + 1, !.ses.ret = w1.err]

decoder_finish(m, err) ==
  IF err = "EOF"
  THEN finished(m, bufio_Flush(bufio_Write(m.w, Slice(m.d.buf, 0, m.d.pos))))
  ELSE [m EXCEPT !.ses.ret = err]

\* cp copies forward one byte at a time, so a byte read at or after the old
\* pos is one this copy wrote: with ref behind pos by dist, the byte stored at
\* pos+ii is the old byte at ref + (ii mod dist).  The loop panics at the
\* first index outside the buffer.
cpLoop(m, length, dec, pos, ref, n) ==
  IF n < length
  THEN Panic([m EXCEPT !.d.buf =
                IF n = 0 THEN @
                ELSE StoreAt(@, pos, [k \in 1..n |->
                       BufAt(m.d.buf, IF pos > ref THEN ref + ((k - 1) % (pos - ref))
                                      ELSE ref + k - 1)])],
             "index out of range")
  ELSE [m EXCEPT !.d.buf =
          IF n = 0 THEN @
          ELSE StoreAt(@, pos, [k \in 1..n |->
                 BufAt(m.d.buf, IF pos > ref THEN ref + ((k - 1) % (pos - ref))
                                ELSE ref + k - 1)]),
                 !.d.pos = pos + length,
                 !.d.ref = ref + length - dec]

cpFlushed(m, length, dec) ==
  IF m.ses.panic # "none" THEN m
  ELSE cpLoop(m, length, dec, m.d.pos, m.d.ref,
              IF m.d.ref < 0 THEN 0
              ELSE Min(length, bufferSize - Max(m.d.pos, m.d.ref)))

decoder_cp(m, length, dec) == cpFlushed(decoder_flush(m, length), length, dec)

\* consume: the literal loop reads a byte and then stores it; it ends when
\* length bytes are stored, when a read fails (finish, whose answer consume
\* returns) or when the store index leaves the buffer.
consumeLoop(m, length, have, room, n) ==
  IF n = length
  THEN [m EXCEPT !.d.buf = StoreAt(@, m.d.pos, InSlice(m.r.in, m.r.off, m.r.off + n)),
                 !.d.pos = @ + n,
                 !.r.off = @ + n,
                 !.ses.ret = "nil"]
  ELSE IF have <= room
  THEN decoder_finish(
         [m EXCEPT !.d.buf = StoreAt(@, m.d.pos, InSlice(m.r.in, m.r.off, m.r.off + n)),
                   !.d.pos = @ + n,
                   !.r.off = @ + n,
                   !.r.fails = @ + 1,
                   !.ses.site = "literals"],
         m.r.err)
  ELSE Panic([m EXCEPT !.d.buf = StoreAt(@, m.d.pos, InSlice(m.r.in, m.r.off, m.r.off + n)),
                       !.d.pos = @ + n,
                       !.r.off = @ + n + 1],
             "index out of range")

consumeFlushed(m, length) ==
  IF m.ses.panic # "none" THEN m
  ELSE consumeLoop(m, length, InLen(m.r.in) - m.r.off, bufferSize - m.d.pos,
                   Min(length, Min(InLen(m.r.in) - m.r.off, bufferSize - m.d.pos)))

decoder_consume(m, length) == consumeFlushed(decoder_flush(m, length), length)

decr == <<0, 3, 2, 3>>

NoLen(rd) == [length |-> 0, err |-> "nil", r |-> rd]

\* decode1, lines 171-178: the short-offset copy and the match copy
decode1_match2(m, length) ==
  IF m.ses.panic # "none" THEN m ELSE decoder_cp(m, length, 0)

decode1_match(m, length, literal) ==
  IF literal < 4
  THEN decode1_match2(decoder_cp(m, 4, decr[literal + 1]), length)
  ELSE decoder_cp(m, length + 4, 0)

\* decode1, lines 162-169: the match length
decode1_mlen(m, code, g) ==
  IF g.err # "nil"
  THEN decoder_finish([m EXCEPT !.r = g.r,
                                !.ses.site = IF @ # "none" THEN @ ELSE "match length"],
                      g.err)
  ELSE decode1_match([m EXCEPT !.r = g.r], (code % (2 ^ mlBits)) + g.length,
                     m.d.pos - m.d.ref)

\* decode1, lines 156-160: the offset
decode1_back(m, code, u) ==
  IF u.err # "nil"
  THEN decoder_finish(
         [m EXCEPT !.r = u.r,
                   !.ses.ret = "run",
                   !.ses.site = IF @ # "none" THEN @
                                ELSE IF u.at = 1 THEN "offset" ELSE "offset high byte"],
         u.err)
  ELSE decode1_mlen([m EXCEPT !.r = u.r,
                              !.ses.ret = "run",
                              !.d.ref = m.d.pos - u.u16,
                              !.ses.mal = @ \/ u.u16 = 0 \/ u.u16 > m.d.pos,
                              !.ses.under = @ \/ u.u16 > m.d.pos],
                    code,
                    IF code % (2 ^ mlBits) = mlMask THEN decoder_getLen(u.r) ELSE NoLen(u.r))

\* decode1, lines 151-154: the literals
decode1_consumed(m, code) ==
  IF m.ses.panic # "none" THEN m
  ELSE IF m.ses.ret # "nil" THEN decoder_finish(m, m.ses.ret)
  ELSE decode1_back(m, code, decoder_readUint16(m.r))

\* decode1, lines 142-149: the literal length
decode1_llen(m, code, g) ==
  IF g.err # "nil"
  THEN decoder_finish([m EXCEPT !.r = g.r, !.ses.site = "literal length"], g.err)
  ELSE decode1_consumed(decoder_consume([m EXCEPT !.r = g.r], (code \div (2 ^ mlBits)) + g.length),
                        code)

\* decode1, lines 137-140: the token byte
decode1_code(m, c) ==
  IF c.err # "nil"
  THEN decoder_finish([m EXCEPT !.r = c.r, !.ses.site = "token"], c.err)
  ELSE decode1_llen([m EXCEPT !.r = c.r, !.ses.code = c.by], c.by,
                    IF c.by \div (2 ^ mlBits) = runMask THEN decoder_getLen(c.r) ELSE NoLen(c.r))

\* One turn of decode1's loop.  ses.ret stays "run" when the loop goes on.
decode1 == decode1_code([d |-> d, r |-> r, w |-> w, ses |-> ses], ReadByte(r))

\* ------------------------------------------------------------ the hash of both encoders
\* (sequence * 2654435761) >> hashShift on uint32, computed on the four bytes
\* of each factor: 2654435761 is 0x9E3779B1.  c0..c3 are the column sums of
\* the product, taken modulo 2^32 by dropping the columns from 2^32 on.
hashBytes(r1, r2, r3) == r3 * 512 + r2 * 2 + (r1 \div 128)

hashCarry(c0, c1, c2, c3) ==
  hashBytes((c1 + c0 \div 256) % 256,
            (c2 + (c1 + c0 \div 256) \div 256) % 256,
            (c3 + (c2 + (c1 + c0 \div 256) \div 256) \div 256) % 256)

Hash(q) ==
  hashCarry(q[1] * 177,
            q[1] * 121 + q[2] * 177,
            q[1] * 55 + q[2] * 121 + q[3] * 177,
            q[1] * 158 + q[2] * 55 + q[3] * 121 + q[4] * 177)

\* a hash table holds its initial value wherever nothing was stored
TableAt(tab, h, init) == IF h \in DOMAIN tab THEN tab[h] ELSE init

TablePut(tab, h, v) == (h :> v) @@ tab

\* (x >> 16) != 0 on a uint32
Shr16NonZero(x) == x < 0 \/ x >= 65536

\* the steps that write a length of at least 15: the 255s and the last byte
Run255(n) == [k \in 1..n |-> 255]

Continuation(x) == Run255(x \div 255) \o <<x % 255>>

\* a bound without the sixteen bytes of slack and the continuation bytes
CompressBound_tight(isize) == isize

\* ------------------------------------------------------------ src/writer.go
CompressBound(isize) ==
  IF isize > MaxInputSize THEN 0 ELSE isize + (isize \div 255) + 16

\* encoder of writer.go with Encode's locals; cap is len(dst)
NewBlockEncoder(n) ==
  [dst |-> <<>>, cap |-> n, hashTable |-> <<>>, pos |-> 0, anchor |-> 0, dpos |-> 0,
   step |-> 1, limit |-> incompressible, ref |-> 0, ln |-> 0, back |-> 0, lanchor |-> 0]

block_readUint32(src, pos) ==
  IF pos >= InLen(src) THEN <<0, 0, 0, 0>>
  ELSE <<InAt(src, pos), InAt(src, pos + 1), InAt(src, pos + 2), InAt(src, pos + 3)>>

\* e.dst[e.dpos] = x; e.dpos++ for each x of q: the store past len(dst) panics
block_put(m, q) ==
  IF m.e.dpos + Len(q) > m.e.cap
  THEN Panic([m EXCEPT !.e.dst = @ \o SubSeq(q, 1, Max(0, m.e.cap - m.e.dpos)),
                       !.e.dpos = Max(@, m.e.cap)],
             "index out of range")
  ELSE [m EXCEPT !.e.dst = @ \o q, !.e.dpos = @ + Len(q)]

\* copy(e.dst[e.dpos:], e.src[pos:pos+length]); e.dpos += length
block_copy(m, src, pos, length) ==
  IF m.ses.panic # "none" THEN m
  ELSE [m EXCEPT !.e.dst = @ \o InSlice(src, pos, pos + Min(length, m.e.cap - m.e.dpos)),
                 !.e.dpos = @ + length]

block_token(length, mlLen) ==
  <<(IF length > runMask - 1 THEN runMask ELSE length) * (2 ^ mlBits)
    + (IF mlLen > mlMask - 1 THEN mlMask ELSE mlLen)>>

block_writeLiterals(m, src, length, mlLen, pos) ==
  block_copy(block_put(m, block_token(length, mlLen)
                          \o (IF length > runMask - 1 THEN Continuation(length - runMask)
                              ELSE <<>>)),
             src, pos, length)

\* Encode, lines 121-124: the last literals and the result e.dst[:e.dpos]
block_result(m) ==
  IF m.ses.panic # "none" THEN m
  ELSE IF m.e.dpos > m.e.cap THEN Panic(m, "slice bounds out of range")
  ELSE [m EXCEPT !.ses.ret = "nil"]

\* Encode, lines 130-137: no match here
block_miss(m, grow) ==
  [m EXCEPT !.e.limit = IF grow THEN @ * 2 ELSE @,
            !.e.step = IF grow THEN @ + 1 + (@ \div 4) ELSE @,
            !.e.pos = @ + (IF grow THEN m.e.step + 1 + (m.e.step \div 4) ELSE m.e.step)]

\* Encode, lines 125-154, with the table entry read before it is overwritten
block_probe(m, src, sequence, hash, ref) ==
  IF Shr16NonZero(m.e.pos - ref) \/ block_readUint32(src, ref) # sequence
  THEN block_miss([m EXCEPT !.e.hashTable = TablePut(@, hash, m.e.pos - uninitHash)],
                  m.e.pos - m.e.anchor > m.e.limit)
  ELSE IF m.e.step > 1
  THEN [m EXCEPT !.e.hashTable = TablePut(@, hash, ref - uninitHash),
                 !.e.pos = @ - (m.e.step - 1),
                 !.e.step = 1]
  ELSE [m EXCEPT !.e.hashTable = TablePut(@, hash, m.e.pos - uninitHash),
                 !.e.limit = incompressible,
                 !.e.ln = m.e.pos - m.e.anchor,
                 !.e.back = m.e.pos - ref,
                 !.e.lanchor = m.e.anchor,
                 !.e.pos = @ + minMatch,
                 !.e.ref = ref + minMatch,
                 !.e.anchor = m.e.pos + minMatch,
                 !.ses.ret = "match"]

block_hashed(m, src, sequence, hash) ==
  block_probe(m, src, sequence, hash, TableAt(m.e.hashTable, hash, 0) + uninitHash)

\* One turn of Encode's loop.  ses.ret is "nil" when Encode has returned,
\* "match" when the turn goes on to extend a match.
block_turn(m, src) ==
  IF m.e.pos + 4 >= InLen(src)
  THEN block_result(block_writeLiterals(m, src, InLen(src) - m.e.anchor, 0, m.e.anchor))
  ELSE block_hashed(m, src, block_readUint32(src, m.e.pos),
                    Hash(block_readUint32(src, m.e.pos)))

\* Encode, lines 161-181: the token of a match, written when it ends
block_mlen(m, mlLen) ==
  IF m.ses.panic # "none" THEN m
  ELSE [block_put(m, <<m.e.back % 256, (m.e.back \div 256) % 256>>
                     \o (IF mlLen > mlMask - 1 THEN Continuation(mlLen - mlMask) ELSE <<>>))
        EXCEPT !.e.anchor = m.e.pos]

block_emit(m, src, mlLen) ==
  block_mlen(block_writeLiterals(m, src, m.e.ln, mlLen, m.e.lanchor), mlLen)

\* Encode, lines 156-159: one turn of the loop that extends the match
block_extend(m, src) ==
  IF m.e.pos < InLen(src) /\ InAt(src, m.e.pos) = InAt(src, m.e.ref)
  THEN [m EXCEPT !.e.pos = @ + 1, !.e.ref = @ + 1]
  ELSE [block_emit(m, src, m.e.pos - m.e.anchor) EXCEPT !.ses.ret = "run"]

\* ------------------------------------------------------------ Block API session
Encode ==
  /\ pc = "block"
  /\ LET m == block_turn([e |-> blk, ses |-> ses], input) IN
     /\ blk' = m.e
     /\ ses' = m.ses
     /\ pc' = IF m.ses.panic # "none" THEN "panic"
              ELSE IF m.ses.ret = "nil" THEN "encoded"
              ELSE IF m.ses.ret = "match" THEN "blockmatch" ELSE "block"
  /\ UNCHANGED <<input, r, w, e, d>>

EncodeMatch ==
  /\ pc = "blockmatch"
  /\ LET m == block_extend([e |-> blk, ses |-> ses], input) IN
     /\ blk' = m.e
     /\ ses' = m.ses
     /\ pc' = IF m.ses.panic # "none" THEN "panic"
              ELSE IF m.ses.ret = "run" THEN "block" ELSE "blockmatch"
  /\ UNCHANGED <<input, r, w, e, d>>

\* NewReader on the block: a decode session reads the bytes Encode returned.
DecodeBlock ==
  /\ pc = "encoded"
  /\ pc' = "decode"
  /\ r' = NewByteReader(SeqIn(blk.dst), "EOF")
  /\ w' = NewWriter0
  /\ d' = NewDecoder
  /\ ses' = NewSession
  /\ UNCHANGED <<input, e, blk>>

\* ------------------------------------------------------------ src/lz4/writer.go
\* lz4/writer.go takes mlBits, mlMask, runMask and bufferSize from the reader
\* of its package; they are the constants of reader.go.
\* encoder of lz4/writer.go with encode1's locals; err is what cache returned
NewEncoder ==
  [buf |-> <<>>, hashTable |-> <<>>, pos |-> 0, anchor |-> 0, cached |-> 0,
   step |-> 1, limit |-> 128, ref |-> 0, ln |-> 0, back |-> 0, lanchor |-> 0,
   err |-> "nil"]

RECURSIVE cacheLoop(_, _, _)
\* cache, lines 72-77: what one turn of the loop does with the byte it read
cacheStore(m, ii, ln, b) ==
  IF b.err # "nil" /\ m.e.pos = m.e.cached
  THEN [m EXCEPT !.r = b.r, !.e.err = "EOF"]
  ELSE IF m.e.cached < 0 \/ m.e.cached >= bufferSize
  THEN Panic([m EXCEPT !.r = b.r], "index out of range")
  ELSE cacheLoop([m EXCEPT !.r = b.r,
                           !.e.buf = StoreAt(@, m.e.cached, <<b.by>>),
                           !.e.cached = @ + 1],
                 ii + 1, ln)

cacheLoop(m, ii, ln) ==
  IF ii >= ln THEN [m EXCEPT !.e.err = "nil"]
  ELSE cacheStore(m, ii, ln, ReadByte(m.r))

encoder_cache(m, ln) ==
  IF m.e.pos + ln > m.e.cached THEN cacheLoop(m, 0, ln)
  ELSE [m EXCEPT !.e.err = "nil"]

\* the four bytes at i, and whether they all lie in the buffer
Bytes4(buf, i) == <<BufAt(buf, i), BufAt(buf, i + 1), BufAt(buf, i + 2), BufAt(buf, i + 3)>>

InBuffer4(i) == i >= 0 /\ i + 3 < bufferSize

encoder_bytes(m, q) == [m EXCEPT !.w = bufio_WriteBytes(@, q)]

encoder_token(length, mlLen) ==
  <<(IF length > runMask - 1 THEN runMask ELSE length) * (2 ^ mlBits)
    + (IF mlLen > mlMask - 1 THEN mlMask ELSE mlLen)>>

\* writeLiterals, lines 132-134: the literal at the first index outside the
\* buffer panics
literals(m, length, anchor) ==
  IF length < 0 \/ anchor < 0 \/ anchor + length > bufferSize
  THEN Panic(m, "index out of range")
  ELSE encoder_bytes(m, Slice(m.e.buf, anchor, anchor + length))

encoder_writeLiterals(m, length, mlLen, anchor) ==
  literals(encoder_bytes(m, encoder_token(length, mlLen)
                            \o (IF length > runMask - 1 /\ length - runMask >= 0
                                THEN Continuation(length - runMask) ELSE <<>>)),
           length, anchor)

encoder_writeUint16(m, value) == encoder_bytes(m, <<value % 256, (value \div 256) % 256>>)

\* flush, lines 147-155: the entries of the hash table after compaction
compacted(tab, anchor) ==
  [h \in DOMAIN tab |->
     IF tab[h] # uninitHash
     THEN IF tab[h] >= 0 /\ tab[h] < anchor THEN uninitHash ELSE tab[h] - anchor
     ELSE tab[h]]

encoder_flush(m) ==
  IF m.e.cached > flushPos
  THEN IF m.e.anchor > m.e.cached \/ m.e.cached > bufferSize
       THEN Panic(m, "slice bounds out of range")
       ELSE [m EXCEPT !.e.buf = StoreAt(@, 0, Slice(m.e.buf, m.e.anchor, m.e.cached)),
                      !.e.hashTable = compacted(@, m.e.anchor),
                      !.e.pos = @ - m.e.anchor,
                      !.e.cached = @ - m.e.anchor,
                      !.e.anchor = 0]
  ELSE m

flushed(m, w1) == [m EXCEPT !.w = w1, !.ses.nfin = @ + 1, !.ses.ret = w1.err]

finishFlush(m) == IF m.ses.panic # "none" THEN m ELSE flushed(m, bufio_Flush(m.w))

encoder_finish(m, err) ==
  IF err = "EOF"
  THEN finishFlush(encoder_writeLiterals(m, m.e.cached - m.e.pos, 0, m.e.anchor))
  ELSE [m EXCEPT !.ses.ret = err]

\* encode1, lines 197-204: no match here
encode1_miss(m, grow) ==
  [m EXCEPT !.e.limit = IF grow THEN @ * 2 ELSE @,
            !.e.step = IF grow THEN @ + 1 + (@ \div 4) ELSE @,
            !.e.pos = @ + (IF grow THEN m.e.step + 1 + (m.e.step \div 4) ELSE m.e.step)]

\* encode1, lines 194-221, with the table entry read before it is overwritten
encode1_probe(m, sequence, hash, ref) ==
  IF Shr16NonZero(m.e.pos - ref)
  THEN encode1_miss([m EXCEPT !.e.hashTable = TablePut(@, hash, m.e.pos)],
                    m.e.pos - m.e.anchor > m.e.limit)
  ELSE IF ~InBuffer4(ref)
  THEN Panic(m, "index out of range")
  ELSE IF Bytes4(m.e.buf, ref) # sequence
  THEN encode1_miss([m EXCEPT !.e.hashTable = TablePut(@, hash, m.e.pos)],
                    m.e.pos - m.e.anchor > m.e.limit)
  ELSE IF m.e.step > 1
  THEN [m EXCEPT !.e.hashTable = TablePut(@, hash, ref),
                 !.e.pos = @ - (m.e.step - 1),
                 !.e.step = 1]
  ELSE [m EXCEPT !.e.hashTable = TablePut(@, hash, m.e.pos),
                 !.e.limit = 128,
                 !.e.ln = m.e.pos - m.e.anchor,
                 !.e.back = m.e.pos - ref,
                 !.e.lanchor = m.e.anchor,
                 !.e.pos = @ + minMatch,
                 !.e.ref = ref + minMatch,
                 !.e.anchor = m.e.pos + minMatch,
                 !.ses.ret = "match"]

encode1_hashed(m, sequence, hash) ==
  encode1_probe(m, sequence, hash, TableAt(m.e.hashTable, hash, uninitHash))

\* encode1, lines 189-193: readUint32 after cache(4)
encode1_cached(m) ==
  IF m.ses.panic # "none" THEN m
  ELSE IF m.e.err # "nil" THEN encoder_finish(m, m.e.err)
  ELSE IF ~InBuffer4(m.e.pos) THEN Panic(m, "index out of range")
  ELSE encode1_hashed(m, Bytes4(m.e.buf, m.e.pos), Hash(Bytes4(m.e.buf, m.e.pos)))

encode1_flushed(m) == IF m.ses.panic # "none" THEN m ELSE encode1_cached(encoder_cache(m, 4))

\* One turn of encode1's loop.  ses.ret is "run" when the loop goes on,
\* "match" when the turn goes on to extend a match.
encode1_turn(m) == encode1_flushed(encoder_flush(m))

\* encode1, lines 247-251: finish is called and what it returns is dropped
encode1_end(m, err) ==
  IF m.ses.panic # "none" THEN m
  ELSE IF err # "nil"
  THEN [encoder_finish([m EXCEPT !.e.anchor = m.e.pos], err) EXCEPT !.ses.ret = "run"]
  ELSE [m EXCEPT !.e.anchor = m.e.pos, !.ses.ret = "run"]

\* encode1, lines 236-245
encode1_mlen(m, mlLen) ==
  IF m.ses.panic # "none" THEN m
  ELSE encoder_bytes(encoder_writeUint16(m, m.e.back),
                     IF mlLen > mlMask - 1 THEN Continuation(mlLen - mlMask) ELSE <<>>)

encode1_emit(m, mlLen, err) ==
  encode1_end(encode1_mlen(encoder_writeLiterals(m, m.e.ln, mlLen, m.e.lanchor), mlLen), err)

\* encode1, lines 224-231: one turn of the loop that extends the match
encode1_cached1(m) ==
  IF m.ses.panic # "none" THEN m
  ELSE IF m.e.err # "nil" THEN encode1_emit(m, m.e.pos - m.e.anchor, m.e.err)
  ELSE IF m.e.pos < 0 \/ m.e.pos >= bufferSize \/ m.e.ref >= bufferSize
  THEN Panic(m, "index out of range")
  ELSE IF BufAt(m.e.buf, m.e.pos) # BufAt(m.e.buf, m.e.ref)
  THEN encode1_emit(m, m.e.pos - m.e.anchor, "nil")
  ELSE [m EXCEPT !.e.pos = @ + 1, !.e.ref = @ + 1]

encode1_extend(m) == encode1_cached1(encoder_cache(m, 1))

\* ------------------------------------------------------------ encode session
\* encode (lz4/writer.go:256): the task runs encode1 and closes the pipe with
\* what it returned.
Encode1 ==
  /\ pc = "encode"
  /\ LET m == encode1_turn([e |-> e, r |-> r, w |-> w, ses |-> ses]) IN
     /\ e' = m.e
     /\ r' = m.r
     /\ w' = m.w
     /\ ses' = m.ses
     /\ pc' = IF m.ses.panic # "none" THEN "panic"
              ELSE IF m.ses.ret = "match" THEN "extend"
              ELSE IF m.ses.ret = "run" THEN "encode" ELSE "sent"
  /\ UNCHANGED <<input, blk, d>>

Encode1Match ==
  /\ pc = "extend"
  /\ LET m == encode1_extend([e |-> e, r |-> r, w |-> w, ses |-> ses]) IN
     /\ e' = m.e
     /\ r' = m.r
     /\ w' = m.w
     /\ ses' = m.ses
     /\ pc' = IF m.ses.panic # "none" THEN "panic"
              ELSE IF m.ses.ret = "run" THEN "encode" ELSE "extend"
  /\ UNCHANGED <<input, blk, d>>

\* NewReader on what the consumer read to its end from an encode session
\* that was given the whole of the input.
DecodeStream ==
  /\ pc = "sent"
  /\ ses.ret = "nil"
  /\ r.err = "EOF"
  /\ ~w.rclosed
  /\ pc' = "decode"
  /\ r' = NewByteReader(SeqIn(w.out), "EOF")
  /\ w' = NewWriter0
  /\ d' = NewDecoder
  /\ ses' = NewSession
  /\ UNCHANGED <<input, e, blk>>

\* ------------------------------------------------------------ decode session
\* decode (reader.go:183): the task runs decode1 and closes the pipe with what
\* it returned; a panic ends the task, and the program, instead.
Decode ==
  /\ pc = "decode"
  /\ LET m == decode1 IN
     /\ d' = m.d
     /\ r' = m.r
     /\ w' = m.w
     /\ ses' = m.ses
     /\ pc' = IF m.ses.panic # "none" THEN "panic"
              ELSE IF m.ses.ret = "run" THEN "decode" ELSE "closed"
  /\ UNCHANGED <<input, e, blk>>

\* The consumer closes its end of the pipe while the producer task runs.
ConsumerClose ==
  /\ pc \in {"decode", "encode", "extend"}
  /\ ~w.rclosed
  /\ w' = [w EXCEPT !.rclosed = TRUE]
  /\ UNCHANGED <<input, pc, r, e, blk, d, ses>>

\* ------------------------------------------------------------ decoding given streams
WireBytes == {0, 1, 2, 16, 17, 97}

\* one literal and a match at offset 1 that is longer than the window
LongMatchWire ==
  <<1 * 16 + 15, 97, 1, 0>> \o Continuation(bufferSize + LongBy - 1 - minMatch - mlMask)

Wires ==
  {SeqIn(q) : q \in SeqsUpTo(WireBytes, MaxWire)} \cup {SeqIn(LongMatchWire)}

NoEncoder == [pos |-> 0]

InitDecode ==
  /\ input \in Wires
  /\ pc = "decode"
  /\ \E err \in {"EOF", "EIO"} : r = NewByteReader(input, err)
  /\ w = NewWriter0
  /\ e = NoEncoder
  /\ blk = NoEncoder
  /\ d = NewDecoder
  /\ ses = NewSession

\* ------------------------------------------------------------ encoding given inputs
\* longest input taken from every byte sequence over Alphabet
MaxLen == 8
Alphabet == {0, 97}
\* length of the input that never repeats four bytes
RampLen == 300

SmallInputs == {SeqIn(q) : q \in SeqsUpTo(Alphabet, MaxLen)}

BlockInputs == SmallInputs \cup {RunIn(bufferSize + LongBy, 97), RampIn(RampLen)}

InitBlock ==
  /\ input \in BlockInputs
  /\ pc = "block"
  /\ r = NewByteReader(SeqIn(<<>>), "EOF")
  /\ w = NewWriter0
  /\ e = NoEncoder
  /\ blk = NewBlockEncoder(CompressBound(InLen(input)))
  /\ d = NewDecoder
  /\ ses = [NewSession EXCEPT !.task = "Encode"]

NextBlock == Encode \/ EncodeMatch \/ DecodeBlock \/ Decode

SpecBlock == InitBlock /\ [][NextBlock]_vars

\* the long input: a ramp, a run of LongRun equal bytes at LongAt, a ramp
LongLen == 4230
LongAt == 4200
LongRun == 12

StreamInputs == SmallInputs \cup {BurstIn(LongLen, LongAt, LongRun, 97)}

InitStream ==
  /\ input \in StreamInputs
  /\ pc = "encode"
  /\ \E err \in {"EOF", "EIO"} : r = NewByteReader(input, err)
  /\ w = NewWriter0
  /\ e = NewEncoder
  /\ blk = NoEncoder
  /\ d = NewDecoder
  /\ ses = [NewSession EXCEPT !.task = "encode1"]

NextStream == Encode1 \/ Encode1Match \/ ConsumerClose \/ DecodeStream \/ Decode

SpecStream == InitStream /\ [][NextStream]_vars

NextDecode == Decode \/ ConsumerClose

SpecDecode == InitDecode /\ [][NextDecode]_vars

\* ------------------------------------------------------------ properties
\* the bytes S the scenario gives to the encoder
GivenBytes == InSlice(input, 0, InLen(input))

\* C1: Block round trip.  A decode session that reads the bytes Encode
\* returned for S ends normally, without a panic, and its consumer has read
\* exactly S.
BlockRoundTrip ==
  (ses.task = "decode1" /\ pc \in {"closed", "panic"})
    => (ses.ret = "nil" /\ ses.panic = "none" /\ w.out = GivenBytes)

\* C2: Streaming round trip.  A decode session that reads the bytes an encode
\* session produced to completion from S, and whose consumer reads to the
\* end, ends normally and its consumer has read exactly S.
StreamRoundTrip ==
  (ses.task = "decode1" /\ pc \in {"closed", "panic"} /\ ~w.rclosed)
    => (ses.ret = "nil" /\ ses.panic = "none" /\ w.out = GivenBytes)

\* C3: Output bound.  Encode never writes outside a dst of CompressBound(len(S))
\* bytes, and what it returns is at most len(S) + len(S)/255 + 16 bytes long.
OutputBound ==
  /\ ses.task = "Encode" => ses.panic = "none"
  /\ Len(blk.dst) <= InLen(input) + (InLen(input) \div 255) + 16
  /\ blk.dpos <= InLen(input) + (InLen(input) \div 255) + 16

\* Encode has returned more bytes than it was given, with a literal run long
\* enough to need a continuation byte.
OutputBound_witness ==
  /\ pc = "encoded"
  /\ blk.dpos > InLen(input)
  /\ InLen(input) >= 255

\* C4: Malformed back-reference.  Once the decoder has read an offset that
\* reaches before the start of the decoded bytes, the session has ended with
\* an error for the consumer, and not with a panic.
MalformedIsError ==
  ses.under => (ses.panic = "none" /\ ses.ret \notin {"run", "nil"})

\* C5: Truncated stream.  A decode session whose source ended inside a length
\* continuation, inside the literals or inside the offset does not end
\* normally.
TruncatedIsError ==
  (pc = "closed"
   /\ ses.site \in {"literal length", "literals", "offset high byte", "match length"})
    => ses.ret # "nil"

\* C6: Upstream read failure.  An encode session whose source fails with an
\* error that is not the end of the input ends with that error, and has not
\* run the end-of-input finalisation.
ReadFailurePropagates ==
  (pc = "sent" /\ r.err = "EIO" /\ ~w.rclosed)
    => (ses.ret = "EIO" /\ ses.nfin = 0)

\* C7: Cancellation.  Once a write to the pipe has failed, the producer task
\* calls ReadByte on its byte source no more: the source's position and the
\* number of its failed reads stay as they are.
CancelStopsReading ==
  [][w.err # "nil" => (r'.off = r.off /\ r'.fails = r.fails)]_vars

\* C8: Single finalisation.  A session that ended normally ran the
\* end-of-input finalisation exactly once.
SingleFinalisation ==
  (pc \in {"sent", "closed"} /\ ses.ret = "nil") => ses.nfin = 1

\* C9: Decoder window safety.  While every offset read so far was between 1
\* and the number of decoded bytes, the decoder has not panicked, no flush was
\* entered with ref below flushSize, and ref <= pos <= bufferSize.
DecoderWindow ==
  (ses.task = "decode1" /\ ~ses.mal)
    => (ses.panic = "none" /\ ~ses.lowref /\ d.ref <= d.pos /\ d.pos <= bufferSize)

\* C10: Encoder window safety.  In an encode session anchor <= pos <= cached
\* <= bufferSize, and the encoder has not panicked.
EncoderWindow ==
  ses.task = "encode1"
    => (ses.panic = "none" /\ e.anchor <= e.pos /\ e.pos <= e.cached
        /\ e.cached <= bufferSize)

====
